---- MODULE Spec2Model ----
(***************************************************************************)
(* Payoff evaluation of OptionStratLib: `impl Payoff for OptionType` and   *)
(* its helpers in src/src/model/types.rs.                                  *)
(*                                                                         *)
(* Numbers.  An f64 is modelled as an exact rational [num, den] in lowest  *)
(* terms with den > 0; the only irrational operation of the code, powf     *)
(* with exponent 1/len, is truncated to a multiple of 1/Precision.  A      *)
(* `Positive` is a rational that is >= 0; an operation producing a         *)
(* `Positive` from a negative value does not return (it panics), which     *)
(* the model records as the outcome Panic of the evaluation.               *)
(***************************************************************************)
EXTENDS Integers, Sequences, FiniteSets, TLC

(* ------------------------------ bounds -------------------------------- *)
\* spot, strike, barrier level and observed extrema range over 0..MaxPrice
MaxPrice == 3
\* a sampled price path has at most MaxLen entries
MaxLen == 2
\* a Compound contract nests at most MaxDepth wrappers
MaxDepth == 1
\* resolution of powf(1/len): results are multiples of 1/Precision
Precision == 10
\* workers evaluating payoffs at the same time
NumWorkers == 2
\* a Compound contract evaluated delegation by delegation nests at most
\* MaxNesting wrappers
MaxNesting == 3

(* --------------------------- f64 arithmetic --------------------------- *)
Abs(i) == IF i < 0 THEN -i ELSE i

RECURSIVE Gcd(_, _)
Gcd(a, b) == IF b = 0 THEN a ELSE Gcd(b, a % b)

\* the rational n/d (d > 0) in lowest terms
Ratio(n, d) ==
    LET g == Gcd(Abs(n), d) IN [num |-> n \div g, den |-> d \div g]

\* an integer as an f64 (Positive::to_f64, `as f64`)
F(i) == [num |-> i, den |-> 1]

FAdd(a, b) == Ratio(a.num * b.den + b.num * a.den, a.den * b.den)
FSub(a, b) == Ratio(a.num * b.den - b.num * a.den, a.den * b.den)
FMul(a, b) == Ratio(a.num * b.num, a.den * b.den)
\* a / b for b > 0 (the code divides by a length > 0 only)
FDiv(a, b) == Ratio(a.num * b.den, a.den * b.num)
FLt(a, b) == a.num * b.den < b.num * a.den
FLe(a, b) == a.num * b.den <= b.num * a.den
FGe(a, b) == FLe(b, a)
FGt(a, b) == FLt(b, a)
FMax(a, b) == IF FLt(a, b) THEN b ELSE a
FAbs(a) == [num |-> Abs(a.num), den |-> a.den]

\* crate::constants::ZERO (f64) and Positive::ZERO
ZERO == F(0)

RECURSIVE IPow(_, _)
IPow(b, e) == IF e = 0 THEN 1 ELSE b * IPow(b, e - 1)

\* f64::powf with a natural exponent (powf(x, 0) = 1 also for x = 0)
Powf(x, e) == Ratio(IPow(x.num, e), IPow(x.den, e))

\* the largest k >= lo with k^n <= x
RECURSIVE RootFrom(_, _, _)
RootFrom(x, n, lo) == IF IPow(lo + 1, n) > x THEN lo ELSE RootFrom(x, n, lo + 1)

\* f64::powf(product, 1.0 / n) for a non-negative integral product, to the
\* model's resolution: the largest multiple of 1/Precision whose n-th power
\* does not exceed product
RootF(product, n) == Ratio(RootFrom(product * IPow(Precision, n), n, 0), Precision)

(* ------------------------ outcomes of a call -------------------------- *)
\* the call returned the f64 v
Ok(v) == [kind |-> "ok", val |-> v]
\* the call panicked (unwound without a value)
Panic == [kind |-> "panic"]
\* no call has been made yet
NoResult == [kind |-> "none"]

(* ------------------------------ Positive ------------------------------ *)
\* `Positive - Positive` and `Positive - f64` have Output = Positive: the
\* difference is returned when it is >= 0 and the operation panics otherwise
PositiveSub(a, b) == IF FLt(a, b) THEN Panic ELSE Ok(FSub(a, b))

(* ------------------------------ Option<T> ----------------------------- *)
None == [some |-> FALSE]
Some(v) == [some |-> TRUE, v |-> v]
\* Option::unwrap_or
UnwrapOr(o, default) == IF o.some THEN o.v ELSE default

(* ------------------------- the scenario snapshot ---------------------- *)
OptionStyle == {"Call", "Put"}
Side == {"Long", "Short"}

Prices == 0..MaxPrice

RECURSIVE SeqsUpTo(_, _)
SeqsUpTo(S, n) ==
    IF n = 0 THEN {<<>>}
    ELSE LET shorter == SeqsUpTo(S, n - 1) IN
         shorter \cup {Append(p, x) : p \in {q \in shorter : Len(q) = n - 1}, x \in S}

\* every value of spot_prices: absent, empty, or 1..MaxLen sampled prices
AllPaths == {None} \cup {Some(p) : p \in SeqsUpTo(1..MaxPrice, MaxLen)}
\* the values of spot_prices tried for contracts whose code never reads it
FewPaths == {None, Some(<<1>>)}
\* every value of spot_min / spot_max
AllExtrema == {None} \cup {Some(F(x)) : x \in Prices}
\* the values of spot_min / spot_max tried for contracts that never read them
FewExtrema == {None, Some(F(1))}

\* PayoffInfo
PayoffInfo(paths, extrema) ==
    [spot : Prices, strike : Prices, style : OptionStyle, side : Side,
     spot_prices : paths, spot_min : extrema, spot_max : extrema]

\* PayoffInfo::spot_prices_len
spot_prices_len(info) ==
    IF info.spot_prices.some THEN Some(Len(info.spot_prices.v)) ELSE None

(* --------------------------- standard payoff -------------------------- *)
\* crate::pricing::payoff::standard_payoff: the intrinsic value
standard_payoff(info) ==
    IF info.style = "Call"
    THEN Ok(FMax(FSub(F(info.spot), F(info.strike)), ZERO))
    ELSE Ok(FMax(FSub(F(info.strike), F(info.spot)), ZERO))

(* ------------------------------ Asian --------------------------------- *)
AsianAveragingType == {"Arithmetic", "Geometric"}

\* spot_prices.iter().sum::<f64>()
RECURSIVE Sum(_)
Sum(prices) == IF prices = <<>> THEN 0 ELSE Head(prices) + Sum(Tail(prices))

\* spot_prices.iter().fold(1.0, |acc, &x| acc * x)
RECURSIVE Product(_)
Product(prices) == IF prices = <<>> THEN 1 ELSE Head(prices) * Product(Tail(prices))

\* the `average` of calculate_asian_payoff, for a path of length len > 0
AsianAverage(averaging_type, spot_prices, len) ==
    IF averaging_type = "Arithmetic"
    THEN FDiv(F(Sum(spot_prices)), F(len))
    ELSE RootF(Product(spot_prices), len)

\* calculate_asian_payoff without the guard on the path: a missing or empty
\* path falls back to the current spot
calculate_asian_payoff_NoPathGuard(averaging_type, info) ==
    LET len == spot_prices_len(info)
        average == IF info.spot_prices.some /\ len.some /\ len.v > 0
                   THEN AsianAverage(averaging_type, info.spot_prices.v, len.v)
                   ELSE F(info.spot)
    IN  IF info.style = "Call"
        THEN Ok(FMax(FSub(average, F(info.strike)), ZERO))
        ELSE LET diff == PositiveSub(F(info.strike), average) IN
             IF diff.kind = "panic" THEN Panic ELSE Ok(FMax(diff.val, ZERO))

calculate_asian_payoff(averaging_type, info) ==
    LET len == spot_prices_len(info) IN
    IF ~(info.spot_prices.some /\ len.some /\ len.v > 0)
    THEN Ok(ZERO)
    ELSE LET average == AsianAverage(averaging_type, info.spot_prices.v, len.v) IN
         IF info.style = "Call"
         THEN Ok(FMax(FSub(average, F(info.strike)), ZERO))
         ELSE LET diff == PositiveSub(F(info.strike), average) IN
              IF diff.kind = "panic" THEN Panic ELSE Ok(FMax(diff.val, ZERO))

(* ------------------------------ Barrier ------------------------------- *)
BarrierType == {"UpAndIn", "UpAndOut", "DownAndIn", "DownAndOut"}

\* barrier_condition with strict comparisons: touching the level does not count
barrier_condition_Strict(barrier_type, barrier_level, info) ==
    IF barrier_type \in {"UpAndIn", "UpAndOut"}
    THEN FGt(UnwrapOr(info.spot_max, F(info.spot)), barrier_level)
    ELSE FLt(UnwrapOr(info.spot_min, F(info.spot)), barrier_level)

\* barrier_condition without the fallback to the current spot: an absent
\* extremum never meets the barrier
barrier_condition_NoFallback(barrier_type, barrier_level, info) ==
    IF barrier_type \in {"UpAndIn", "UpAndOut"}
    THEN info.spot_max.some /\ FGe(info.spot_max.v, barrier_level)
    ELSE info.spot_min.some /\ FLe(info.spot_min.v, barrier_level)

\* barrier_condition with the knock-in types alone comparing strictly
barrier_condition_InStrict(barrier_type, barrier_level, info) ==
    CASE barrier_type = "UpAndIn" ->
            FGt(UnwrapOr(info.spot_max, F(info.spot)), barrier_level)
      [] barrier_type = "UpAndOut" ->
            FGe(UnwrapOr(info.spot_max, F(info.spot)), barrier_level)
      [] barrier_type = "DownAndIn" ->
            FLt(UnwrapOr(info.spot_min, F(info.spot)), barrier_level)
      [] barrier_type = "DownAndOut" ->
            FLe(UnwrapOr(info.spot_min, F(info.spot)), barrier_level)

\* the `barrier_condition` of calculate_barrier_payoff
barrier_condition(barrier_type, barrier_level, info) ==
    IF barrier_type \in {"UpAndIn", "UpAndOut"}
    THEN FGe(UnwrapOr(info.spot_max, F(info.spot)), barrier_level)
    ELSE FLe(UnwrapOr(info.spot_min, F(info.spot)), barrier_level)

\* calculate_barrier_payoff paying the rebate of a knock-in that never knocked in
calculate_barrier_payoff_InRebate(barrier_type, barrier_level, rebate, info) ==
    LET cond == barrier_condition(barrier_type, barrier_level, info)
        std_payoff == standard_payoff(info)
    IN  IF barrier_type \in {"UpAndIn", "DownAndIn"}
        THEN IF cond THEN std_payoff ELSE Ok(UnwrapOr(rebate, F(0)))
        ELSE IF cond THEN Ok(UnwrapOr(rebate, F(0))) ELSE std_payoff

\* calculate_barrier_payoff as its doc comment has it: a knocked-out option pays 0.0
calculate_barrier_payoff_NoRebate(barrier_type, barrier_level, rebate, info) ==
    LET cond == barrier_condition(barrier_type, barrier_level, info)
        std_payoff == standard_payoff(info)
    IN  IF barrier_type \in {"UpAndIn", "DownAndIn"}
        THEN IF cond THEN std_payoff ELSE Ok(F(0))
        ELSE IF cond THEN Ok(F(0)) ELSE std_payoff

\* calculate_barrier_payoff with the arms of the knock-out swapped: the rebate
\* is paid while the option is alive
calculate_barrier_payoff_OutSwapped(barrier_type, barrier_level, rebate, info) ==
    LET cond == barrier_condition(barrier_type, barrier_level, info)
        std_payoff == standard_payoff(info)
    IN  IF barrier_type \in {"UpAndIn", "DownAndIn"}
        THEN IF cond THEN std_payoff ELSE Ok(F(0))
        ELSE IF cond THEN std_payoff ELSE Ok(UnwrapOr(rebate, F(0)))

calculate_barrier_payoff(barrier_type, barrier_level, rebate, info) ==
    LET cond == barrier_condition(barrier_type, barrier_level, info)
        std_payoff == standard_payoff(info)
    IN  IF barrier_type \in {"UpAndIn", "DownAndIn"}
        THEN IF cond THEN std_payoff ELSE Ok(F(0))
        ELSE IF cond THEN Ok(UnwrapOr(rebate, F(0))) ELSE std_payoff

(* ------------------------------ Binary -------------------------------- *)
BinaryType == {"CashOrNothing", "AssetOrNothing", "Gap"}

\* is_in_the_money with inclusive comparisons: at the money counts as in
is_in_the_money_Inclusive(info) ==
    IF info.style = "Call" THEN info.spot >= info.strike ELSE info.spot <= info.strike

\* the `is_in_the_money` of calculate_binary_payoff
is_in_the_money(info) ==
    IF info.style = "Call" THEN info.spot > info.strike ELSE info.spot < info.strike

\* calculate_binary_payoff with the asset-or-nothing arm paying the intrinsic
\* value instead of the spot
calculate_binary_payoff_AssetPaysIntrinsic(binary_type, info) ==
    CASE binary_type = "CashOrNothing" ->
            IF is_in_the_money(info) THEN Ok(F(1)) ELSE Ok(F(0))
      [] binary_type \in {"AssetOrNothing", "Gap"} ->
            IF is_in_the_money(info)
            THEN Ok(FAbs(FSub(F(info.spot), F(info.strike))))
            ELSE Ok(F(0))

\* calculate_binary_payoff with the gap arm paying spot - strike, sign kept
calculate_binary_payoff_GapSigned(binary_type, info) ==
    CASE binary_type = "CashOrNothing" ->
            IF is_in_the_money(info) THEN Ok(F(1)) ELSE Ok(F(0))
      [] binary_type = "AssetOrNothing" ->
            IF is_in_the_money(info) THEN Ok(F(info.spot)) ELSE Ok(F(0))
      [] binary_type = "Gap" ->
            IF is_in_the_money(info)
            THEN Ok(FSub(F(info.spot), F(info.strike)))
            ELSE Ok(F(0))

calculate_binary_payoff(binary_type, info) ==
    CASE binary_type = "CashOrNothing" ->
            IF is_in_the_money(info) THEN Ok(F(1)) ELSE Ok(F(0))
      [] binary_type = "AssetOrNothing" ->
            IF is_in_the_money(info) THEN Ok(F(info.spot)) ELSE Ok(F(0))
      [] binary_type = "Gap" ->
            IF is_in_the_money(info)
            THEN Ok(FAbs(FSub(F(info.spot), F(info.strike))))
            ELSE Ok(F(0))

(* ------------------------------ Lookback ------------------------------ *)
LookbackType == {"FixedStrike", "FloatingStrike"}

\* calculate_floating_strike_payoff with an absent extremum replaced by the
\* current spot instead of ZERO
calculate_floating_strike_payoff_DefaultSpot(info) ==
    LET extremum == IF info.style = "Call" THEN info.spot_min ELSE info.spot_max IN
    IF info.style = "Call"
    THEN Ok(FSub(F(info.spot), UnwrapOr(extremum, F(info.spot))))
    ELSE Ok(FSub(UnwrapOr(extremum, F(info.spot)), F(info.spot)))

calculate_floating_strike_payoff(info) ==
    LET extremum == IF info.style = "Call" THEN info.spot_min ELSE info.spot_max IN
    IF info.style = "Call"
    THEN Ok(FSub(F(info.spot), UnwrapOr(extremum, ZERO)))
    ELSE Ok(FSub(UnwrapOr(extremum, ZERO), F(info.spot)))

(* ----------------------- Chooser, Quanto, Power ----------------------- *)
\* the Chooser arm of OptionType::payoff
ChooserPayoff(info) ==
    LET call == PositiveSub(F(info.spot), F(info.strike))
        put == FMax(FSub(F(info.strike), F(info.spot)), ZERO)
    IN  IF call.kind = "panic" THEN Panic ELSE Ok(FMax(FMax(call.val, ZERO), put))

\* the Quanto arm dividing by the exchange rate (a zero rate left unapplied)
QuantoPayoff_Divided(exchange_rate, info) ==
    LET std == standard_payoff(info) IN
    IF std.kind = "panic" THEN Panic
    ELSE IF exchange_rate.num = 0 THEN std
    ELSE Ok(FDiv(std.val, exchange_rate))

\* the Quanto arm of OptionType::payoff
QuantoPayoff(exchange_rate, info) ==
    LET std == standard_payoff(info) IN
    IF std.kind = "panic" THEN Panic ELSE Ok(FMul(std.val, exchange_rate))

\* the Power arm of OptionType::payoff
PowerPayoff(exponent, info) ==
    LET powered == Powf(F(info.spot), exponent) IN
    IF info.style = "Call"
    THEN Ok(FMax(FSub(powered, F(info.strike)), ZERO))
    ELSE LET diff == PositiveSub(F(info.strike), powered) IN
         IF diff.kind = "panic" THEN Panic ELSE Ok(FMax(diff.val, ZERO))

(* ------------------------------ dispatch ------------------------------ *)
\* the arms of the match in <OptionType as Payoff>::payoff that do not recurse
payoff_match(self, info) ==
    CASE self.type \in {"European", "American"} -> standard_payoff(info)
      [] self.type = "Bermuda" -> standard_payoff(info)
      [] self.type = "Asian" -> calculate_asian_payoff(self.averaging_type, info)
      [] self.type = "Barrier" ->
            calculate_barrier_payoff(self.barrier_type, self.barrier_level,
                                     self.rebate, info)
      [] self.type = "Binary" -> calculate_binary_payoff(self.binary_type, info)
      [] self.type = "Lookback" ->
            IF self.lookback_type = "FixedStrike"
            THEN standard_payoff(info)
            ELSE calculate_floating_strike_payoff(info)
      [] self.type = "Chooser" -> ChooserPayoff(info)
      [] self.type = "Cliquet" -> standard_payoff(info)
      [] self.type \in {"Rainbow", "Spread", "Exchange"} -> standard_payoff(info)
      [] self.type = "Quanto" -> QuantoPayoff(self.exchange_rate, info)
      [] self.type = "Power" -> PowerPayoff(self.exponent, info)

\* payoff with the Bermuda arm sent to the floating-strike formula
RECURSIVE payoff_BermudaFloating(_, _)
payoff_BermudaFloating(self, info) ==
    IF self.type = "Compound" THEN payoff_BermudaFloating(self.underlying_option, info)
    ELSE IF self.type = "Bermuda" THEN calculate_floating_strike_payoff(info)
    ELSE payoff_match(self, info)

\* payoff with both Lookback strike types sent to the floating-strike formula
RECURSIVE payoff_FixedAsFloating(_, _)
payoff_FixedAsFloating(self, info) ==
    IF self.type = "Compound" THEN payoff_FixedAsFloating(self.underlying_option, info)
    ELSE IF self.type = "Lookback" THEN calculate_floating_strike_payoff(info)
    ELSE payoff_match(self, info)

\* payoff with the Compound arm clamping the nested payoff at zero
RECURSIVE payoff_CompoundClamped(_, _)
payoff_CompoundClamped(self, info) ==
    IF self.type = "Compound"
    THEN LET inner == payoff_CompoundClamped(self.underlying_option, info) IN
         IF inner.kind = "panic" THEN Panic ELSE Ok(FMax(inner.val, ZERO))
    ELSE payoff_match(self, info)

\* payoff with the Exchange arm striking at the second asset
RECURSIVE payoff_ExchangeSecondAsset(_, _)
payoff_ExchangeSecondAsset(self, info) ==
    IF self.type = "Compound"
    THEN payoff_ExchangeSecondAsset(self.underlying_option, info)
    ELSE IF self.type = "Exchange"
    THEN standard_payoff([info EXCEPT !.strike = self.second_asset])
    ELSE payoff_match(self, info)

\* payoff signed by the side: a Short position pays the negated amount
RECURSIVE payoff_ShortNegated(_, _)
payoff_ShortNegated(self, info) ==
    IF self.type = "Compound" THEN payoff_ShortNegated(self.underlying_option, info)
    ELSE LET long == payoff_match(self, info) IN
         IF info.side = "Long" \/ long.kind = "panic" THEN long
         ELSE Ok(FSub(ZERO, long.val))

\* <OptionType as Payoff>::payoff: the Compound arm delegates to the nested
\* contract with the same scenario, every other arm is payoff_match
RECURSIVE payoff(_, _)
payoff(self, info) ==
    IF self.type = "Compound"
    THEN payoff(self.underlying_option, info)
    ELSE payoff_match(self, info)

(* ------------------------- contracts evaluated ------------------------ *)
\* parameter values tried
DateLists == {<<>>, <<1>>}
Levels == {F(x) : x \in Prices}
Rebates == {None, Some(F(0)), Some(F(1))}
ExchangeRates == {F(0), F(1), Ratio(3, 2)}
Exponents == {0, 1, 2}
RainbowType == {"BestOf", "WorstOf"}

StandardOptions ==
    {[type |-> "European"], [type |-> "American"]}
    \cup {[type |-> "Bermuda", exercise_dates |-> d] : d \in DateLists}
AsianOptions == {[type |-> "Asian", averaging_type |-> a] : a \in AsianAveragingType}
BarrierOptions ==
    {[type |-> "Barrier", barrier_type |-> t, barrier_level |-> l, rebate |-> r] :
        t \in BarrierType, l \in Levels, r \in Rebates}
BinaryOptions == {[type |-> "Binary", binary_type |-> b] : b \in BinaryType}
LookbackOptions == {[type |-> "Lookback", lookback_type |-> l] : l \in LookbackType}
ChooserOptions == {[type |-> "Chooser", choice_date |-> d] : d \in {1, 2}}
StubOptions ==
    {[type |-> "Cliquet", reset_dates |-> d] : d \in DateLists}
    \cup {[type |-> "Rainbow", num_assets |-> 2, rainbow_type |-> r] : r \in RainbowType}
    \cup {[type |-> t, second_asset |-> a] : t \in {"Spread", "Exchange"}, a \in {1, 2}}
QuantoOptions == {[type |-> "Quanto", exchange_rate |-> x] : x \in ExchangeRates}
PowerOptions == {[type |-> "Power", exponent |-> e] : e \in Exponents}

\* OptionType::Compound { underlying_option } nested depth times around inner
RECURSIVE Wrap(_, _)
Wrap(inner, depth) ==
    IF depth = 0 THEN inner
    ELSE [type |-> "Compound", underlying_option |-> Wrap(inner, depth - 1)]

\* the scenarios tried per family of contracts: the scenario fields the
\* family's code reads take every value, the others a few
PlainScenarios == PayoffInfo(FewPaths, FewExtrema)
PathScenarios == PayoffInfo(AllPaths, FewExtrema)
ExtremaScenarios == PayoffInfo(FewPaths, AllExtrema)

(* --------------------------- the evaluation --------------------------- *)
\* option, info, pc, result: one call of payoff, taken as a whole
\* workers: calls of payoff taken delegation by delegation, one per worker
\* shown, out: a value handed to Display::fmt and the text written for it
VARIABLES option, info, pc, result, workers, shown, out
vars == <<option, info, pc, result, workers, shown, out>>

\* no call is evaluated step by step
NoWorkers == workers = <<>>
\* nothing is displayed
NothingShown == shown = None /\ out = None
\* no call is evaluated as a whole
NoCall == option = None /\ info = None /\ pc = "idle" /\ result = NoResult

\* the caller has built a contract (options, wrapped in Compound to one of
\* depths) and a scenario and is about to call payoff
InitWith(options, scenarios, depths) ==
    /\ \E o \in options, d \in depths : option = Wrap(o, d)
    /\ info \in scenarios
    /\ pc = "call"
    /\ result = NoResult
    /\ NoWorkers
    /\ NothingShown

InitStandard == InitWith(StandardOptions, PlainScenarios, {0})
InitAsian == InitWith(AsianOptions, PathScenarios, {0})
InitBarrier == InitWith(BarrierOptions, ExtremaScenarios, {0})
InitBinary == InitWith(BinaryOptions, PlainScenarios, {0})
InitLookback == InitWith(LookbackOptions, ExtremaScenarios, {0})
InitChooser == InitWith(ChooserOptions, PlainScenarios, {0})
InitStub == InitWith(StubOptions, PlainScenarios, {0})
InitQuanto == InitWith(QuantoOptions, PlainScenarios, {0})
InitPower == InitWith(PowerOptions, PlainScenarios, {0})
\* the path-dependent variants
InitPathDependent ==
    \/ InitWith(AsianOptions, PathScenarios, {0})
    \/ InitWith(BarrierOptions, ExtremaScenarios, {0})
    \/ InitWith(LookbackOptions, ExtremaScenarios, {0})

Init ==
    \/ InitWith(StandardOptions, PlainScenarios, 0..MaxDepth)
    \/ InitWith(AsianOptions, PathScenarios, 0..MaxDepth)
    \/ InitWith(BarrierOptions, ExtremaScenarios, 0..MaxDepth)
    \/ InitWith(BinaryOptions, PlainScenarios, 0..MaxDepth)
    \/ InitWith(LookbackOptions, ExtremaScenarios, 0..MaxDepth)
    \/ InitWith(ChooserOptions, PlainScenarios, 0..MaxDepth)
    \/ InitWith(StubOptions, PlainScenarios, 0..MaxDepth)
    \/ InitWith(QuantoOptions, PlainScenarios, 0..MaxDepth)
    \/ InitWith(PowerOptions, PlainScenarios, 0..MaxDepth)

\* option.payoff(&info): returns a value or panics
Evaluate ==
    /\ pc = "call"
    /\ result' = payoff(option, info)
    /\ pc' = IF result'.kind = "panic" THEN "panicked" ELSE "returned"
    /\ UNCHANGED <<option, info, workers, shown, out>>

Next == Evaluate

Spec == Init /\ [][Next]_vars
SpecStandard == InitStandard /\ [][Next]_vars
SpecAsian == InitAsian /\ [][Next]_vars
SpecBarrier == InitBarrier /\ [][Next]_vars
SpecBinary == InitBinary /\ [][Next]_vars
SpecLookback == InitLookback /\ [][Next]_vars
SpecChooser == InitChooser /\ [][Next]_vars
SpecStub == InitStub /\ [][Next]_vars
SpecQuanto == InitQuanto /\ [][Next]_vars
SpecPower == InitPower /\ [][Next]_vars
SpecPathDependent == InitPathDependent /\ [][Next]_vars

(* ------------------ the evaluation, step by step ---------------------- *)
\* The Compound arm calls payoff on the nested contract with the same `info`
\* reference: a call on a nest of d wrappers is d delegations followed by one
\* non-recursive arm.  A worker's frame holds what its call works on: the
\* contract and scenario it was given, the contract the innermost call in
\* progress has as `self`, and the delegations made so far.
Frame(o, i) ==
    [option |-> o, info |-> i, cur |-> o, delegations |-> 0,
     pc |-> "call", result |-> NoResult]

\* the contracts evaluated step by step: one that returns what it computes,
\* one that can return a negative value, one that can panic
SteppedOptions ==
    {[type |-> "European"],
     [type |-> "Lookback", lookback_type |-> "FloatingStrike"],
     [type |-> "Chooser", choice_date |-> 1]}

\* the scenarios of concurrent workers: no path data, spot below and above
\* the strike
WorkerScenarios ==
    [spot : {0, MaxPrice}, strike : {1}, style : OptionStyle, side : {"Long"},
     spot_prices : {None}, spot_min : {None}, spot_max : {None}]

\* one worker is about to evaluate a contract nested 0..MaxNesting deep
InitNested ==
    /\ \E o \in SteppedOptions, d \in 0..MaxNesting, i \in PlainScenarios :
          workers = <<Frame(Wrap(o, d), i)>>
    /\ NoCall
    /\ NothingShown

\* NumWorkers workers are each about to evaluate a pair of their own
InitWorkers ==
    /\ workers \in [1..NumWorkers ->
          {Frame(Wrap(o, d), i) : o \in SteppedOptions, d \in 0..MaxDepth,
                                  i \in WorkerScenarios}]
    /\ NoCall
    /\ NothingShown

\* the Compound arm delegating to the contract itself instead of the nested
\* one (the recursion stops only when the stack is exhausted)
Delegate_Self(w) ==
    /\ workers[w].pc = "call"
    /\ workers[w].cur.type = "Compound"
    /\ workers[w].delegations <= MaxNesting
    /\ workers' = [workers EXCEPT ![w].delegations = @ + 1]
    /\ UNCHANGED <<option, info, pc, result, shown, out>>

\* worker w's call reaches the Compound arm: it calls payoff on the nested
\* contract, with the same scenario
Delegate(w) ==
    /\ workers[w].pc = "call"
    /\ workers[w].cur.type = "Compound"
    /\ workers' = [workers EXCEPT ![w].cur = @.underlying_option,
                                  ![w].delegations = @ + 1]
    /\ UNCHANGED <<option, info, pc, result, shown, out>>

\* the non-recursive arms reading the scenario from a slot the workers
\* share (the first worker's) instead of the `info` they were passed
Return_SharedScenario(w) ==
    /\ workers[w].pc = "call"
    /\ workers[w].cur.type # "Compound"
    /\ LET r == payoff_match(workers[w].cur, workers[1].info) IN
       workers' = [workers EXCEPT
                      ![w].result = r,
                      ![w].pc = IF r.kind = "panic" THEN "panicked" ELSE "returned"]
    /\ UNCHANGED <<option, info, pc, result, shown, out>>

\* worker w's call reaches a non-recursive arm: the value (or the panic)
\* goes back unchanged through every delegation
Return(w) ==
    /\ workers[w].pc = "call"
    /\ workers[w].cur.type # "Compound"
    /\ LET r == payoff_match(workers[w].cur, workers[w].info) IN
       workers' = [workers EXCEPT
                      ![w].result = r,
                      ![w].pc = IF r.kind = "panic" THEN "panicked" ELSE "returned"]
    /\ UNCHANGED <<option, info, pc, result, shown, out>>

NextWorkers == \E w \in DOMAIN workers : Delegate(w) \/ Return(w)

\* a call in progress keeps running: nothing in payoff waits or blocks
SpecNested == InitNested /\ [][NextWorkers]_vars /\ WF_vars(NextWorkers)
SpecWorkers == InitWorkers /\ [][NextWorkers]_vars

(* ------------------------------ Display ------------------------------- *)
\* The text a Display::fmt writes is modelled as the sequence of the pieces
\* written: a format string with the arguments it is filled with, and every
\* line break as a piece of its own.  How an argument is rendered is left to
\* the Display or Debug of its type.
Piece(fmt, args) == [fmt |-> fmt, args |-> args]
NL == Piece("\n", <<>>)

\* write!(f, fmt, args..) and writeln!(f, fmt, args..) onto the text f
write(f, fmt, args) == Append(f, Piece(fmt, args))
writeln(f, fmt, args) == f \o <<Piece(fmt, args), NL>>

\* the exotic parameters written on every call, None included
write_exotic_Always(f, exotic_params) ==
    f \o <<NL, Piece("Exotic Parameters: {:?}",
                     <<IF exotic_params.some THEN exotic_params.v ELSE None>>)>>

\* the `if let Some(exotic)` of <Options as Display>::fmt: a line break and
\* the Debug rendering of the exotic parameters
write_exotic(f, exotic_params) ==
    IF exotic_params.some
    THEN f \o <<NL, Piece("Exotic Parameters: {:?}", <<exotic_params.v>>)>>
    ELSE f

\* <Options as Display>::fmt
FmtOptions(self) ==
    LET f1 == writeln(<<>>, "{} {} {}",
                      <<self.side, self.option_style, self.option_type>>)
        f2 == writeln(f1, "Underlying: {} @ ${:.2}",
                      <<self.underlying_symbol, self.underlying_price>>)
        f3 == writeln(f2, "Strike: ${:.2}", <<self.strike_price>>)
        f4 == writeln(f3, "Expiration: {}", <<self.expiration_date>>)
        f5 == writeln(f4, "Implied Volatility: {:.2}%",
                      <<FMul(self.implied_volatility, F(100))>>)
        f6 == writeln(f5, "Quantity: {}", <<self.quantity>>)
        f7 == writeln(f6, "Risk-free Rate: {:.2}%",
                      <<FMul(self.risk_free_rate, F(100))>>)
        f8 == write(f7, "Dividend Yield: {:.2}%",
                    <<FMul(self.dividend_yield, F(100))>>)
    IN  write_exotic(f8, self.exotic_params)

\* the fields of ExoticParams
ExoticFieldNames ==
    {"spot_prices", "spot_min", "spot_max",
      "cliquet_local_cap", "cliquet_local_floor", "cliquet_global_cap",
      "cliquet_global_floor", "rainbow_second_asset_price", "rainbow_second_asset_volatility",
      "rainbow_second_asset_dividend", "rainbow_correlation", "spread_second_asset_volatility",
      "spread_second_asset_dividend", "spread_correlation", "quanto_fx_volatility",
      "quanto_fx_correlation", "quanto_foreign_rate", "exchange_second_asset_volatility",
      "exchange_second_asset_dividend", "exchange_correlation"}

\* one `if let Some(..) = self.<field> { fields.push(format!(..)) }`
Push(fields, opt, fmt) ==
    IF opt.some THEN Append(fields, Piece(fmt, <<opt.v>>)) ELSE fields

\* the `fields` vector of <ExoticParams as Display>::fmt before it is joined
ExoticFields(self) ==
    LET f1 == Push(<<>>, self.spot_prices, "Spot Prices: {:?}")
        f2 == Push(f1, self.spot_min, "Spot Min: {:.2}")
        f3 == Push(f2, self.spot_max, "Spot Max: {:.2}")
        f4 == Push(f3, self.cliquet_local_cap, "Cliquet Local Cap: {:.2}")
        f5 == Push(f4, self.cliquet_local_floor, "Cliquet Local Floor: {:.2}")
        f6 == Push(f5, self.cliquet_global_cap, "Cliquet Global Cap: {:.2}")
        f7 == Push(f6, self.cliquet_global_floor, "Cliquet Global Floor: {:.2}")
        f8 == Push(f7, self.rainbow_second_asset_price, "Rainbow Second Asset Price: {}")
        f9 == Push(f8, self.rainbow_second_asset_volatility, "Rainbow Second Asset Volatility: {}")
        f10 == Push(f9, self.rainbow_second_asset_dividend, "Rainbow Second Asset Dividend: {}")
        f11 == Push(f10, self.rainbow_correlation, "Rainbow Correlation: {:.4}")
        f12 == Push(f11, self.spread_second_asset_volatility, "Spread Second Asset Volatility: {}")
        f13 == Push(f12, self.spread_second_asset_dividend, "Spread Second Asset Dividend: {}")
        f14 == Push(f13, self.spread_correlation, "Spread Correlation: {:.4}")
        f15 == Push(f14, self.quanto_fx_volatility, "Quanto FX Volatility: {}")
        f16 == Push(f15, self.quanto_fx_correlation, "Quanto FX Correlation: {:.4}")
        f17 == Push(f16, self.quanto_foreign_rate, "Quanto Foreign Rate: {:.4}")
        f18 == Push(f17, self.exchange_second_asset_volatility, "Exchange Second Asset Volatility: {}")
        f19 == Push(f18, self.exchange_second_asset_dividend, "Exchange Second Asset Dividend: {}")
        f20 == Push(f19, self.exchange_correlation, "Exchange Correlation: {:.4}")
    IN  f20

\* join putting the separator after every entry
RECURSIVE join_Trailing(_, _)
join_Trailing(fields, sep) ==
    IF fields = <<>> THEN <<>>
    ELSE <<Head(fields), Piece(sep, <<>>)>> \o join_Trailing(Tail(fields), sep)

\* [String]::join
RECURSIVE join(_, _)
join(fields, sep) ==
    IF fields = <<>> THEN <<>>
    ELSE IF Len(fields) = 1 THEN fields
    ELSE <<Head(fields), Piece(sep, <<>>)>> \o join(Tail(fields), sep)

\* <ExoticParams as Display>::fmt
FmtExoticParams(self) == join(ExoticFields(self), ", ")

\* the loop writing the items last to first
RECURSIVE writeln_each_Reversed(_, _, _)
writeln_each_Reversed(f, items, fmt) ==
    IF items = <<>> THEN f
    ELSE writeln(writeln_each_Reversed(f, Tail(items), fmt), fmt, <<Head(items)>>)

\* `for item in &items { writeln!(f, fmt, item)?; }`
RECURSIVE writeln_each(_, _, _)
writeln_each(f, items, fmt) ==
    IF items = <<>> THEN f
    ELSE writeln_each(writeln(f, fmt, <<Head(items)>>), Tail(items), fmt)

\* <Strategy as Display>::fmt
FmtStrategy(self) ==
    LET f1 == writeln(<<>>, "Strategy: {}", <<self.name>>)
        f2 == writeln(f1, "Type: {:?}", <<self.kind>>)
        f3 == writeln(f2, "Description: {}", <<self.description>>)
        f4 == writeln(f3, "Legs:", <<>>)
        f5 == writeln_each(f4, self.legs, "  {}")
        f6 == IF self.max_profit.some
              THEN writeln(f5, "Max Profit: ${:.2}", <<self.max_profit.v>>)
              ELSE f5
        f7 == IF self.max_loss.some
              THEN writeln(f6, "Max Loss: ${:.2}", <<self.max_loss.v>>)
              ELSE f6
        f8 == writeln(f7, "Break-even Points:", <<>>)
    IN  writeln_each(f8, self.break_even_points, "  ${:.2}")

(* -------------------------- values displayed -------------------------- *)
\* the fields of ExoticParams whose presence is varied one by one; the
\* others are present or absent together
VariedFields ==
    {"spot_prices", "spot_min", "spot_max", "cliquet_local_cap",
     "cliquet_global_floor", "rainbow_second_asset_price", "rainbow_correlation",
     "spread_correlation", "quanto_foreign_rate", "exchange_correlation"}

\* an ExoticParams with the fields of `present` set, and the fields outside
\* VariedFields set when `rest` holds
ExoticWith(present, rest) ==
    [n \in ExoticFieldNames |->
        IF n \in present \/ (rest /\ n \notin VariedFields)
        THEN Some(IF n = "spot_prices" THEN <<1, 2>> ELSE 1)
        ELSE None]

ExoticValues == {ExoticWith(present, rest) : present \in SUBSET VariedFields,
                                             rest \in BOOLEAN}

OptionsValues ==
    [option_type : {[type |-> "European"],
                    [type |-> "Barrier", barrier_type |-> "UpAndIn",
                     barrier_level |-> F(1), rebate |-> None]},
     side : Side,
     underlying_symbol : {"AAPL"},
     strike_price : Prices,
     expiration_date : {30},
     implied_volatility : {F(0), Ratio(1, 4)},
     quantity : {1},
     underlying_price : Prices,
     risk_free_rate : {Ratio(1, 100)},
     option_style : OptionStyle,
     dividend_yield : {F(0), Ratio(1, 50)},
     exotic_params : {None, Some(ExoticWith({}, FALSE)),
                      Some(ExoticWith({"spot_min"}, FALSE))}]

\* a Position holding an option of the given side
Leg(side) ==
    [option |-> [option_type |-> [type |-> "European"], side |-> side,
                 underlying_symbol |-> "AAPL", strike_price |-> 1,
                 expiration_date |-> 30, implied_volatility |-> Ratio(1, 50),
                 quantity |-> 1, underlying_price |-> 1,
                 risk_free_rate |-> Ratio(1, 20), option_style |-> "Call",
                 dividend_yield |-> Ratio(1, 100), exotic_params |-> None],
     premium |-> 5, date |-> 0, open_fee |-> 1, close_fee |-> 1]

StrategyValues ==
    [name : {"Bull Call Spread"},
     kind : {"BullCallSpread"},
     description : {"A bullish options strategy"},
     legs : SeqsUpTo({Leg(side) : side \in Side}, MaxLen),
     max_profit : {None, Some(F(10))},
     max_loss : {None, Some(F(5))},
     break_even_points : SeqsUpTo(Prices, MaxLen)]

\* the caller holds a value and is about to format it
InitDisplay(values) ==
    /\ shown \in values
    /\ out = None
    /\ NoCall
    /\ NoWorkers

InitDisplayOptions == InitDisplay(OptionsValues)
InitDisplayExotic == InitDisplay(ExoticValues)
InitDisplayStrategy == InitDisplay(StrategyValues)

\* format!("{options}")
DisplayOptions ==
    /\ out = None
    /\ out' = Some(FmtOptions(shown))
    /\ UNCHANGED <<option, info, pc, result, workers, shown>>

\* format!("{exotic_params}")
DisplayExoticParams ==
    /\ out = None
    /\ out' = Some(FmtExoticParams(shown))
    /\ UNCHANGED <<option, info, pc, result, workers, shown>>

\* format!("{strategy}")
DisplayStrategy ==
    /\ out = None
    /\ out' = Some(FmtStrategy(shown))
    /\ UNCHANGED <<option, info, pc, result, workers, shown>>

NextDisplayOptions == DisplayOptions
NextDisplayExotic == DisplayExoticParams
NextDisplayStrategy == DisplayStrategy

SpecDisplayOptions == InitDisplayOptions /\ [][NextDisplayOptions]_vars
SpecDisplayExotic == InitDisplayExotic /\ [][NextDisplayExotic]_vars
SpecDisplayStrategy == InitDisplayStrategy /\ [][NextDisplayStrategy]_vars

(* ====================================================================== *)
(*                               Properties                               *)
(* ====================================================================== *)
\* the call has ended (returned or panicked)
Called == pc \in {"returned", "panicked"}

\* the scenario carries no path data
NoPathData == info.spot_prices = None /\ info.spot_min = None /\ info.spot_max = None

\* the intrinsic value on spot and strike, by cases
Intrinsic ==
    IF info.style = "Call"
    THEN IF info.spot > info.strike THEN F(info.spot - info.strike) ELSE F(0)
    ELSE IF info.spot < info.strike THEN F(info.strike - info.spot) ELSE F(0)

\* C1: for European, American and Bermuda (any exercise dates) and a scenario
\* with no path data, a Call pays spot - strike when spot > strike and 0
\* otherwise, a Put pays strike - spot when spot < strike and 0 otherwise.
C1_StandardPayoff ==
    (Called /\ option.type \in {"European", "American", "Bermuda"} /\ NoPathData)
        => result = Ok(Intrinsic)

C1_Witness ==
    /\ pc = "returned" /\ NoPathData
    /\ option.type = "Bermuda" /\ option.exercise_dates # <<>>
    /\ info.style = "Put" /\ info.spot < info.strike
    /\ result = Ok(F(info.strike - info.spot))

\* C2: payoff is total: for every contract variant and every scenario with
\* spot >= 0 and strike >= 0 the call returns a value and never panics.
C2_PayoffTotal == Called => (pc = "returned" /\ result.kind = "ok")

\* the path is absent or has zero length
NoPath == ~info.spot_prices.some \/ info.spot_prices.v = <<>>

\* C3: for an Asian option with either averaging method, an absent or
\* zero-length price path gives payoff 0 for every spot, strike and style.
C3_AsianNoPath ==
    (Called /\ option.type = "Asian" /\ NoPath) => result = Ok(F(0))

C3_Witness ==
    /\ pc = "returned" /\ option.type = "Asian"
    /\ info.spot_prices = Some(<<>>)
    /\ info.style = "Put" /\ info.spot < info.strike
    /\ result = Ok(F(0))

\* max(a - b, 0) on rationals
ClampedDiff(a, b) == IF FLt(b, a) THEN FSub(a, b) ELSE F(0)

\* the standard formula with average in place of spot
AsianExpected(average) ==
    IF info.style = "Call"
    THEN ClampedDiff(average, F(info.strike))
    ELSE ClampedDiff(F(info.strike), average)

\* C4: for an Asian option with arithmetic averaging and a non-empty path,
\* payoff is max(mean - strike, 0) for a Call and max(strike - mean, 0) for a
\* Put, mean being the sum of the path prices divided by their number; the
\* current spot does not enter.
C4_AsianArithmetic ==
    (Called /\ option.type = "Asian" /\ option.averaging_type = "Arithmetic" /\ ~NoPath)
        => LET prices == info.spot_prices.v
               mean == Ratio(Sum(prices), Len(prices))
           IN  result = Ok(AsianExpected(mean))

\* r is the n-th root of x to the model's resolution
IsRootOf(r, x, n) ==
    /\ FLe(Powf(r, n), F(x))
    /\ FLt(F(x), Powf(FAdd(r, Ratio(1, Precision)), n))

\* C5: for an Asian option with geometric averaging and a non-empty path of
\* length n, the average is the n-th root of the product of the path prices
\* and payoff is max(average - strike, 0) for a Call, max(strike - average, 0)
\* for a Put.
C5_AsianGeometric ==
    (Called /\ option.type = "Asian" /\ option.averaging_type = "Geometric" /\ ~NoPath)
        => LET prices == info.spot_prices.v IN
           \E k \in 0..(MaxPrice * Precision) :
               /\ IsRootOf(Ratio(k, Precision), Product(prices), Len(prices))
               /\ result = Ok(AsianExpected(Ratio(k, Precision)))

\* the barrier condition as specified: the extremum if present, else the spot
BarrierMet ==
    IF option.barrier_type \in {"UpAndIn", "UpAndOut"}
    THEN FGe(IF info.spot_max.some THEN info.spot_max.v ELSE F(info.spot),
             option.barrier_level)
    ELSE FLe(IF info.spot_min.some THEN info.spot_min.v ELSE F(info.spot),
             option.barrier_level)

\* C6: the barrier condition is (spot_max if present, else spot) >= level for
\* up barriers and (spot_min if present, else spot) <= level for down
\* barriers; equality counts as met and a present extremum hides the spot.
\* A knock-in with positive intrinsic value pays exactly when it is met.
C6_BarrierCondition ==
    option.type = "Barrier" =>
        /\ barrier_condition(option.barrier_type, option.barrier_level, info) <=> BarrierMet
        /\ (Called /\ option.barrier_type \in {"UpAndIn", "DownAndIn"}
                /\ Intrinsic # F(0))
              => (result # Ok(F(0)) <=> BarrierMet)

\* met by equality through spot_max while the spot itself is below the level
C6_Witness ==
    /\ pc = "returned" /\ option.type = "Barrier" /\ option.barrier_type = "UpAndIn"
    /\ info.spot_max = Some(option.barrier_level)
    /\ FLt(F(info.spot), option.barrier_level)
    /\ Intrinsic # F(0)
    /\ result = Ok(Intrinsic)

\* C7: a knock-in Barrier option pays the standard intrinsic payoff when the
\* barrier condition is met and 0 when it is not, whatever the rebate.
C7_KnockIn ==
    (Called /\ option.type = "Barrier"
        /\ option.barrier_type \in {"UpAndIn", "DownAndIn"})
        => result = Ok(IF BarrierMet THEN Intrinsic ELSE F(0))

\* a knock-in with a rebate set that is not met pays 0, not the rebate
C7_Witness ==
    /\ pc = "returned" /\ option.type = "Barrier" /\ option.barrier_type = "DownAndIn"
    /\ option.rebate = Some(F(1))
    /\ ~BarrierMet /\ Intrinsic # F(0)
    /\ result = Ok(F(0))

InTheMoney ==
    \/ info.style = "Call" /\ info.spot > info.strike
    \/ info.style = "Put" /\ info.spot < info.strike

\* C9: a Binary cash-or-nothing option pays exactly 1 in the money and 0
\* otherwise, so 0 at spot = strike in both styles, whatever the distance
\* between spot and strike.
C9_CashOrNothing ==
    (Called /\ option.type = "Binary" /\ option.binary_type = "CashOrNothing")
        => result = Ok(IF InTheMoney THEN F(1) ELSE F(0))

\* at the money pays 0
C9_Witness ==
    /\ pc = "returned" /\ option.type = "Binary" /\ option.binary_type = "CashOrNothing"
    /\ info.spot = info.strike /\ info.spot > 0
    /\ result = Ok(F(0))

\* C10: a Binary asset-or-nothing option pays the current spot in the money
\* and 0 otherwise.
C10_AssetOrNothing ==
    (Called /\ option.type = "Binary" /\ option.binary_type = "AssetOrNothing")
        => result = Ok(IF InTheMoney THEN F(info.spot) ELSE F(0))

\* a Put in the money pays the spot, which differs from strike - spot
C10_Witness ==
    /\ pc = "returned" /\ option.type = "Binary" /\ option.binary_type = "AssetOrNothing"
    /\ info.style = "Put" /\ info.spot < info.strike
    /\ info.spot # info.strike - info.spot
    /\ result = Ok(F(info.spot))

\* C11: a Binary gap option pays |spot - strike| in the money and 0
\* otherwise, which is the standard intrinsic payoff of the same style.
C11_Gap ==
    (Called /\ option.type = "Binary" /\ option.binary_type = "Gap")
        => /\ result = Ok(IF InTheMoney THEN F(Abs(info.spot - info.strike)) ELSE F(0))
           /\ result = Ok(Intrinsic)

\* a Put in the money, where spot - strike is negative
C11_Witness ==
    /\ pc = "returned" /\ option.type = "Binary" /\ option.binary_type = "Gap"
    /\ info.style = "Put" /\ info.spot < info.strike
    /\ result = Ok(F(info.strike - info.spot))

\* C12: a fixed-strike Lookback option pays the standard intrinsic payoff on
\* spot and strike, whatever the presence or value of spot_min, spot_max and
\* the price path.
C12_LookbackFixed ==
    (Called /\ option.type = "Lookback" /\ option.lookback_type = "FixedStrike")
        => result = Ok(Intrinsic)

\* every piece of path data present, and the floating formula would differ
C12_Witness ==
    /\ pc = "returned" /\ option.type = "Lookback"
    /\ option.lookback_type = "FixedStrike"
    /\ info.spot_prices.some /\ info.spot_min.some /\ info.spot_max.some
    /\ info.style = "Call" /\ info.spot > info.strike
    /\ FSub(F(info.spot), info.spot_min.v) # Intrinsic
    /\ result = Ok(F(info.spot - info.strike))

\* C13: a floating-strike Lookback option pays spot - spot_min for a Call
\* and spot_max - spot for a Put, an absent extremum counting as 0, with no
\* clamping at zero; the strike does not enter.
C13_LookbackFloating ==
    (Called /\ option.type = "Lookback" /\ option.lookback_type = "FloatingStrike")
        => LET min == IF info.spot_min.some THEN info.spot_min.v ELSE F(0)
               max == IF info.spot_max.some THEN info.spot_max.v ELSE F(0)
           IN  result = Ok(IF info.style = "Call"
                           THEN [num |-> info.spot * min.den - min.num, den |-> min.den]
                           ELSE [num |-> max.num - info.spot * max.den, den |-> max.den])

\* a Put with spot_max absent pays -spot, a negative value
C13_Witness ==
    /\ pc = "returned" /\ option.type = "Lookback"
    /\ option.lookback_type = "FloatingStrike"
    /\ info.style = "Put" /\ info.spot_max = None /\ info.spot > 0
    /\ info.strike > 0
    /\ result = Ok(F(0 - info.spot))

\* the path data the contract's formula needs is absent from the scenario
NeededDataAbsent ==
    \/ option.type = "Asian" /\ info.spot_prices = None
    \/ option.type = "Barrier"
          /\ IF option.barrier_type \in {"UpAndIn", "UpAndOut"}
             THEN info.spot_max = None ELSE info.spot_min = None
    \/ option.type = "Lookback" /\ option.lookback_type = "FloatingStrike"
          /\ IF info.style = "Call" THEN info.spot_min = None ELSE info.spot_max = None

\* C14 as stated: for every path-dependent variant (Asian, Barrier,
\* floating-strike Lookback) whose needed path data is absent, payoff is 0.
C14_MissingDataZero == (Called /\ NeededDataAbsent) => result = Ok(F(0))

\* the barrier is met by the current spot
SpotMeetsBarrier ==
    IF option.barrier_type \in {"UpAndIn", "UpAndOut"}
    THEN FGe(F(info.spot), option.barrier_level)
    ELSE FLe(F(info.spot), option.barrier_level)

\* C14 amended: with the needed path data absent, an Asian option pays 0; a
\* Barrier option decides its condition on the current spot and pays by the
\* in/out rule; a floating-strike Lookback takes 0 for the extremum, so a
\* Call pays spot and a Put pays -spot.
C14_MissingData ==
    (Called /\ NeededDataAbsent) =>
        CASE option.type = "Asian" -> result = Ok(F(0))
          [] option.type = "Barrier" ->
                result = Ok(IF option.barrier_type \in {"UpAndIn", "DownAndIn"}
                            THEN (IF SpotMeetsBarrier THEN Intrinsic ELSE F(0))
                            ELSE (IF SpotMeetsBarrier
                                  THEN (IF option.rebate.some THEN option.rebate.v ELSE F(0))
                                  ELSE Intrinsic))
          [] option.type = "Lookback" ->
                result = Ok(IF info.style = "Call" THEN F(info.spot) ELSE F(0 - info.spot))

\* an up-and-in barrier without spot_max, met by the spot, pays the intrinsic value
C14_Witness ==
    /\ pc = "returned" /\ option.type = "Barrier" /\ option.barrier_type = "UpAndIn"
    /\ info.spot_max = None /\ info.spot_min = None /\ info.spot_prices = None
    /\ SpotMeetsBarrier /\ Intrinsic # F(0)
    /\ result = Ok(Intrinsic)

\* C15: for every contract u and scenario s, payoff(Compound{u}, s) is
\* payoff(u, s): the wrapper hands the same scenario on and adds, scales or
\* clamps nothing.
C15_Compound ==
    (Called /\ option.type = "Compound")
        => result = payoff(option.underlying_option, info)

\* a wrapped floating-strike Put whose negative payoff comes through unclamped
C15_Witness ==
    /\ pc = "returned" /\ option.type = "Compound"
    /\ option.underlying_option.type = "Lookback"
    /\ option.underlying_option.lookback_type = "FloatingStrike"
    /\ info.style = "Put" /\ info.spot_max = None /\ info.spot > 0
    /\ result = Ok(F(0 - info.spot))

\* C16: a Chooser option pays max(max(spot - strike, 0), max(strike - spot, 0))
\* for every spot and strike, also for spot < strike, whatever the choice
\* date and the style.
C16_Chooser ==
    (Called /\ option.type = "Chooser")
        => result = Ok(FMax(ClampedDiff(F(info.spot), F(info.strike)),
                            ClampedDiff(F(info.strike), F(info.spot))))

\* C17: a Quanto option pays the standard intrinsic payoff multiplied by the
\* exchange rate, for every exchange rate.
C17_Quanto ==
    (Called /\ option.type = "Quanto")
        => result = Ok(Ratio(Intrinsic.num * option.exchange_rate.num,
                             option.exchange_rate.den))

\* a rate of 3/2 applied to a positive intrinsic value
C17_Witness ==
    /\ pc = "returned" /\ option.type = "Quanto"
    /\ option.exchange_rate = Ratio(3, 2)
    /\ Intrinsic = F(1)
    /\ result = Ok(Ratio(3, 2))

\* C18: a Power option with exponent e pays max(spot^e - strike, 0) for a
\* Call and max(strike - spot^e, 0) for a Put, so a Put with spot^e > strike
\* pays 0.
C18_Power ==
    (Called /\ option.type = "Power")
        => LET powered == F(IPow(info.spot, option.exponent)) IN
           result = Ok(IF info.style = "Call"
                       THEN ClampedDiff(powered, F(info.strike))
                       ELSE ClampedDiff(F(info.strike), powered))

\* C19: Cliquet, Rainbow, Spread and Exchange pay the standard intrinsic
\* payoff on spot and strike for every value of their own parameters.
C19_Stubs ==
    (Called /\ option.type \in {"Cliquet", "Rainbow", "Spread", "Exchange"})
        => result = Ok(Intrinsic)

\* an Exchange option whose second asset differs from the strike
C19_Witness ==
    /\ pc = "returned" /\ option.type = "Exchange"
    /\ option.second_asset # info.strike /\ option.second_asset < info.spot
    /\ info.style = "Call" /\ info.spot > info.strike
    /\ result = Ok(F(info.spot - info.strike))

\* the other side
OtherSide(side) == IF side = "Long" THEN "Short" ELSE "Long"

\* C21: the scenario's side does not influence the payoff: for every contract
\* variant, the scenario that differs from the evaluated one only in side
\* (Long for Short, Short for Long) gives the same outcome.
C21_SideIrrelevant ==
    Called => result = payoff(option, [info EXCEPT !.side = OtherSide(info.side)])

\* a Short scenario with a positive payoff
C21_Witness ==
    /\ pc = "returned" /\ info.side = "Short"
    /\ option.type = "Quanto" /\ option.exchange_rate = Ratio(3, 2)
    /\ result.kind = "ok" /\ FGt(result.val, F(0))
    /\ result = payoff(option, [info EXCEPT !.side = "Long"])

RECURSIVE Innermost(_)
Innermost(contract) ==
    IF contract.type = "Compound" THEN Innermost(contract.underlying_option)
    ELSE contract

\* C27: for every variant other than floating-strike Lookback (also inside
\* Compound), with rebate >= 0 and exchange rate >= 0, payoff returns a value
\* >= 0 for every scenario with spot >= 0 and strike >= 0.
C27_NonNegative ==
    (Called /\ ~(Innermost(option).type = "Lookback"
                  /\ Innermost(option).lookback_type = "FloatingStrike"))
        => (result.kind = "ok" /\ FGe(result.val, F(0)))

\* the barrier type of the same direction and the opposite in/out kind
Partner(barrier_type) ==
    CASE barrier_type = "UpAndIn" -> "UpAndOut"
      [] barrier_type = "UpAndOut" -> "UpAndIn"
      [] barrier_type = "DownAndIn" -> "DownAndOut"
      [] barrier_type = "DownAndOut" -> "DownAndIn"

\* C28: for the same scenario, level and direction, with no rebate set, the
\* knock-in payoff plus the knock-out payoff is the standard intrinsic
\* payoff, one of the two being the standard payoff and the other 0.
C28_InOutParity ==
    (Called /\ option.type = "Barrier" /\ option.rebate = None)
        => LET other == payoff([option EXCEPT !.barrier_type = Partner(@)], info) IN
           /\ result.kind = "ok" /\ other.kind = "ok"
           /\ FAdd(result.val, other.val) = Intrinsic
           /\ \/ result.val = Intrinsic /\ other.val = F(0)
              \/ result.val = F(0) /\ other.val = Intrinsic

\* met by equality through spot_max: the knock-in pays, the knock-out does not
C28_Witness ==
    /\ pc = "returned" /\ option.type = "Barrier" /\ option.barrier_type = "UpAndIn"
    /\ option.rebate = None
    /\ info.spot_max = Some(option.barrier_level)
    /\ Intrinsic # F(0)
    /\ result = Ok(Intrinsic)
    /\ payoff([option EXCEPT !.barrier_type = "UpAndOut"], info) = Ok(F(0))

\* worker w's call has ended
Done(w) == workers[w].pc \in {"returned", "panicked"}

\* C22: under every interleaving of the workers' steps, each worker's result
\* is the result of evaluating its own (contract, scenario) pair alone, and
\* a step of one worker leaves every other worker's data as it was.
C22_NoInterference ==
    /\ [](\A w \in DOMAIN workers :
            Done(w) => workers[w].result = payoff(workers[w].option, workers[w].info))
    /\ [][\E w \in DOMAIN workers :
            \A v \in DOMAIN workers \ {w} : workers'[v] = workers[v]]_vars

\* worker 2 has ended with its own value while worker 1, given the same
\* contract and another scenario, is in the middle of its call
C22_Witness ==
    /\ workers[1].pc = "call" /\ workers[1].delegations = 1
    /\ Done(2)
    /\ workers[1].option = workers[2].option
    /\ workers[1].info # workers[2].info
    /\ workers[2].option.type = "Compound"
    /\ workers[2].result = Ok(F(MaxPrice - 1))

\* the number of Compound wrappers around the innermost contract
RECURSIVE Depth(_)
Depth(contract) ==
    IF contract.type = "Compound" THEN 1 + Depth(contract.underlying_option) ELSE 0

\* C29: evaluating a Compound nested to depth d around a non-Compound
\* variant v ends, after exactly d delegations, with the outcome of
\* payoff(v, scenario) for the same scenario.
C29_CompoundTerminates ==
    /\ [](/\ workers[1].delegations + Depth(workers[1].cur) = Depth(workers[1].option)
          /\ Done(1) =>
                /\ workers[1].delegations = Depth(workers[1].option)
                /\ workers[1].result =
                      payoff(Innermost(workers[1].option), workers[1].info))
    /\ <>Done(1)

\* three wrappers around a European Call in the money: three delegations
C29_Witness ==
    /\ Done(1)
    /\ Depth(workers[1].option) = MaxNesting
    /\ workers[1].delegations = MaxNesting
    /\ Innermost(workers[1].option).type = "European"
    /\ workers[1].info.style = "Call" /\ workers[1].info.spot > workers[1].info.strike
    /\ workers[1].result = Ok(F(workers[1].info.spot - workers[1].info.strike))

\* the format strings of the pieces, in the order written
Texts(pieces) == [i \in 1..Len(pieces) |-> pieces[i].fmt]

\* texts is the items in order with sep between every two of them
Separated(texts, items, sep) ==
    /\ Len(texts) = IF items = <<>> THEN 0 ELSE 2 * Len(items) - 1
    /\ \A i \in 1..Len(texts) :
          texts[i] = IF i % 2 = 1 THEN items[(i + 1) \div 2] ELSE sep

\* texts is the items in order with sep after every one of them
Terminated(texts, items, sep) ==
    /\ Len(texts) = 2 * Len(items)
    /\ \A i \in 1..Len(texts) :
          texts[i] = IF i % 2 = 1 THEN items[(i + 1) \div 2] ELSE sep

\* the fmt call has returned
Displayed == out # None

\* C24: Display of an Options value writes the lines side/style/type,
\* Underlying, Strike, Expiration, Implied Volatility, Quantity, Risk-free
\* Rate, Dividend Yield in this order; an Exotic Parameters line follows
\* Dividend Yield if and only if exotic_params is present; the text never
\* ends with a line break.
C24_OptionsDisplay ==
    Displayed =>
        LET texts == Texts(out.v)
            lines == <<"{} {} {}", "Underlying: {} @ ${:.2}", "Strike: ${:.2}",
                       "Expiration: {}", "Implied Volatility: {:.2}%",
                       "Quantity: {}", "Risk-free Rate: {:.2}%",
                       "Dividend Yield: {:.2}%">>
                     \o (IF shown.exotic_params = None THEN <<>>
                         ELSE <<"Exotic Parameters: {:?}">>)
        IN  /\ Separated(texts, lines, "\n")
            /\ out.v[1].args = <<shown.side, shown.option_style, shown.option_type>>
            /\ texts[Len(texts)] # "\n"

\* exotic parameters present: the ninth line is theirs and ends the text
C24_Witness ==
    /\ Displayed
    /\ shown.exotic_params # None
    /\ Len(out.v) = 17
    /\ out.v[15].fmt = "Dividend Yield: {:.2}%"
    /\ out.v[16].fmt = "\n"
    /\ out.v[17].fmt = "Exotic Parameters: {:?}"
    /\ out.v[17].args = <<shown.exotic_params.v>>

\* the entries of ExoticParams in declaration order
ExoticOrder ==
    <<[field |-> "spot_prices", fmt |-> "Spot Prices: {:?}"],
      [field |-> "spot_min", fmt |-> "Spot Min: {:.2}"],
      [field |-> "spot_max", fmt |-> "Spot Max: {:.2}"],
      [field |-> "cliquet_local_cap", fmt |-> "Cliquet Local Cap: {:.2}"],
      [field |-> "cliquet_local_floor", fmt |-> "Cliquet Local Floor: {:.2}"],
      [field |-> "cliquet_global_cap", fmt |-> "Cliquet Global Cap: {:.2}"],
      [field |-> "cliquet_global_floor", fmt |-> "Cliquet Global Floor: {:.2}"],
      [field |-> "rainbow_second_asset_price", fmt |-> "Rainbow Second Asset Price: {}"],
      [field |-> "rainbow_second_asset_volatility", fmt |-> "Rainbow Second Asset Volatility: {}"],
      [field |-> "rainbow_second_asset_dividend", fmt |-> "Rainbow Second Asset Dividend: {}"],
      [field |-> "rainbow_correlation", fmt |-> "Rainbow Correlation: {:.4}"],
      [field |-> "spread_second_asset_volatility", fmt |-> "Spread Second Asset Volatility: {}"],
      [field |-> "spread_second_asset_dividend", fmt |-> "Spread Second Asset Dividend: {}"],
      [field |-> "spread_correlation", fmt |-> "Spread Correlation: {:.4}"],
      [field |-> "quanto_fx_volatility", fmt |-> "Quanto FX Volatility: {}"],
      [field |-> "quanto_fx_correlation", fmt |-> "Quanto FX Correlation: {:.4}"],
      [field |-> "quanto_foreign_rate", fmt |-> "Quanto Foreign Rate: {:.4}"],
      [field |-> "exchange_second_asset_volatility", fmt |-> "Exchange Second Asset Volatility: {}"],
      [field |-> "exchange_second_asset_dividend", fmt |-> "Exchange Second Asset Dividend: {}"],
      [field |-> "exchange_correlation", fmt |-> "Exchange Correlation: {:.4}"]>>

\* C25: Display of ExoticParams writes one entry for each field that is
\* present and none for an absent one, in declaration order, with ", "
\* between entries and none before the first or after the last; with every
\* field absent it writes the empty string.
C25_ExoticDisplay ==
    Displayed =>
        LET present == SelectSeq(ExoticOrder, LAMBDA e : shown[e.field] # None) IN
        /\ Separated(Texts(out.v), [i \in 1..Len(present) |-> present[i].fmt], ", ")
        /\ \A i \in 1..Len(present) :
              out.v[2 * i - 1].args = <<shown[present[i].field].v>>
        /\ (\A n \in ExoticFieldNames : shown[n] = None) => out.v = <<>>

\* spot_prices and spot_max absent: Spot Min comes first, Cliquet Local Cap
\* second, and the last field ends the text
C25_Witness ==
    /\ Displayed
    /\ shown.spot_prices = None /\ shown.spot_max = None
    /\ Len(out.v) >= 5
    /\ out.v[1].fmt = "Spot Min: {:.2}"
    /\ out.v[2].fmt = ", "
    /\ out.v[3].fmt = "Cliquet Local Cap: {:.2}"
    /\ out.v[Len(out.v)].fmt = "Exchange Correlation: {:.4}"

\* n copies of text
Repeat(text, n) == [i \in 1..n |-> text]

\* C26: Display of a Strategy writes Strategy, Type, Description and the
\* "Legs:" header, every leg in list order, a Max Profit line if and only if
\* max_profit is present, a Max Loss line if and only if max_loss is present,
\* the "Break-even Points:" header and every break-even point in list order;
\* both headers are written also for empty lists.
C26_StrategyDisplay ==
    Displayed =>
        LET legs == shown.legs
            points == shown.break_even_points
            profit == IF shown.max_profit = None THEN <<>> ELSE <<"Max Profit: ${:.2}">>
            loss == IF shown.max_loss = None THEN <<>> ELSE <<"Max Loss: ${:.2}">>
            before == 4 + Len(legs) + Len(profit) + Len(loss) + 1
        IN  /\ Terminated(Texts(out.v),
                          <<"Strategy: {}", "Type: {:?}", "Description: {}", "Legs:">>
                          \o Repeat("  {}", Len(legs)) \o profit \o loss
                          \o <<"Break-even Points:">>
                          \o Repeat("  ${:.2}", Len(points)),
                          "\n")
            /\ \A i \in 1..Len(legs) : out.v[2 * (4 + i) - 1].args = <<legs[i]>>
            /\ \A j \in 1..Len(points) : out.v[2 * (before + j) - 1].args = <<points[j]>>

\* two different legs, a Max Profit line without a Max Loss line, two
\* different break-even points
C26_Witness ==
    /\ Displayed
    /\ Len(shown.legs) = 2 /\ shown.legs[1] # shown.legs[2]
    /\ shown.max_profit # None /\ shown.max_loss = None
    /\ Len(shown.break_even_points) = 2
    /\ shown.break_even_points[1] > shown.break_even_points[2]
    /\ out.v[9].args = <<shown.legs[1]>> /\ out.v[11].args = <<shown.legs[2]>>
    /\ out.v[13].fmt = "Max Profit: ${:.2}"
    /\ out.v[15].fmt = "Break-even Points:"
    /\ out.v[17].args = <<shown.break_even_points[1]>>
    /\ out.v[19].args = <<shown.break_even_points[2]>>
    /\ Len(out.v) = 20

====
